---- MODULE Spec2Model ----
(***************************************************************************)
(* scripts/gather_activity.py: one run of main().  The GitHub API is the   *)
(* environment: the fork relation, its page size and the answer of the     *)
(* latest-release endpoint are fixed when the run starts (variable api);   *)
(* the status of every other request, the number of commit pages and the   *)
(* result of every compare request are chosen when the request is made.    *)
(* The recursion of gather_activity is an explicit stack of frames.        *)
(* Repository data no control decision reads (description, stars, issue    *)
(* count, commit dates) is not carried: those requests are modelled by     *)
(* their status only.                                                      *)
(***************************************************************************)
EXTENDS Integers, Sequences, FiniteSets, TLC

\* ---------------------------------------------------------------- bounds
MaxEdges == 3
MaxPageSize == 2
MaxCommitPages == 2

\* ------------------------------------------------------ program constants
MaxDepth == 2

Root == "R"
Forks == {"A", "B"}
Repos == {Root} \cup Forks

None == 0

\* ----------------------------------------------------------- environment
RequestStatuses == {200, 500}
ReleaseStatuses == {200, 404, 500}
CompareResults == {<<0, 0>>, <<0, 3>>, <<1, 2>>}

SeqsUpTo(S, n) == UNION {[1..k -> S] : k \in 0..n}

\* The fork lists the API serves, MaxEdges entries in all.  The two fork
\* names are interchangeable, so the root's first fork is taken to be "A".
ForkRelations ==
    {f \in [Repos -> SeqsUpTo(Forks, MaxEdges)] :
        /\ Len(f[Root]) + Len(f["A"]) + Len(f["B"]) <= MaxEdges
        /\ f[Root] # <<>> => f[Root][1] = "A"}

Min(a, b) == IF a < b THEN a ELSE b

\* The fork list of repo as the API serves it: pages of api.pageSize items,
\* at least one page, every page but the last carrying a "next" link.
NumPages(w, repo) ==
    LET n == Len(w.forksOf[repo])
    IN  IF n = 0 THEN 1 ELSE (n + w.pageSize - 1) \div w.pageSize

Page(w, repo, k) ==
    SubSeq(w.forksOf[repo], (k - 1) * w.pageSize + 1,
           Min(k * w.pageSize, Len(w.forksOf[repo])))

HasNext(w, repo, k) == k < NumPages(w, repo)

\* ------------------------------------------------------- code, as operators
\* a request whose status is never checked
RaisesNever(status) == FALSE

\* response.raise_for_status()
Raises(status) == status < 200 \/ status > 299

\* the page assigned instead of appended
ExtendForksReplace(forks, page) == page

\* get_forks: forks.extend(response.json())
ExtendForks(forks, page) == forks \o page

\* get_forks: url = response.links.get("next", {}).get("url")
NextForksUrl(k, hasNext) == IF hasNext THEN k + 1 ELSE None

\* get_commits_info: url = response.links.get("next", {}).get("url")
NextCommitsUrl(k, hasNext) == IF hasNext THEN k + 1 ELSE None

\* get_repo_info: the latest-release request
ReleaseNumber(status) == IF status = 200 THEN "v1" ELSE "-"

\* the depth test off by one
DepthExceededLate(depth, max_depth) == depth > max_depth + 1

\* gather_activity: if depth > max_depth: return []
DepthExceeded(depth, max_depth) == depth > max_depth

\* the filter of line 129 in place of the one of line 126
ExcludedBoth(commits_ahead, commits_behind) ==
    commits_ahead = 0 /\ commits_behind = 0

\* a filter that also drops forks one commit ahead
ExcludedUpToOne(commits_ahead, commits_behind) == commits_ahead <= 1

\* gather_activity: if commits_ahead == 0: continue
Excluded(commits_ahead, commits_behind) == commits_ahead = 0

\* a loop that does not advance past a skipped fork
AfterSkipStay(i) == i

\* gather_activity: the for loop's step after "continue"
AfterSkip(i) == i + 1

\* a recursive call that keeps the caller's upstream
ChildUpstreamKeep(parent, fork) == parent

\* gather_activity: the first two arguments of the recursive call
ChildUpstream(parent, fork) == fork

\* gather_activity: depth + 1 in the recursive call
ChildDepth(depth) == depth + 1

\* the subtree's records placed before the caller's
ExtendActivityFront(fork_activity, sub) == sub \o fork_activity

\* gather_activity: fork_activity.extend(gather_activity(...))
ExtendActivity(fork_activity, sub) == fork_activity \o sub

\* a dictionary that keeps the value already stored under a key
DictPutFirst(d, r) ==
    IF \E k \in 1..Len(d) : d[k].fork = r.fork THEN d ELSE Append(d, r)

\* main: {activity['fork']['full_name']: activity for activity in ...}
DictPut(d, r) ==
    IF \E k \in 1..Len(d) : d[k].fork = r.fork
    THEN [k \in 1..Len(d) |-> IF d[k].fork = r.fork THEN r ELSE d[k]]
    ELSE Append(d, r)

RECURSIVE DictOf(_, _)
DictOf(rs, d) == IF rs = <<>> THEN d ELSE DictOf(Tail(rs), DictPut(d, Head(rs)))

UniqueActivity(rs) == DictOf(rs, <<>>)

\* generate_html: one table row per activity, depth = path.count('/')
Row(r) ==
    [repo_name |-> r.fork, commits_ahead |-> r.commits_ahead,
     commits_behind |-> r.commits_behind,
     last_release_number |-> r.last_release_number,
     depth |-> 2 * Len(r.path)]

Render(rs) == [k \in 1..Len(rs) |-> Row(rs[k])]

\* ------------------------------------------------------------------ state
VARIABLES
    api,              \* the API's answers in this run
    pc,               \* position of main
    murl,             \* main's get_commits_info: page to request
    stack,            \* frames of gather_activity, innermost last
    fork_activity,    \* main: result of the top-level gather_activity
    unique_activity,  \* main: the deduplicated list
    file,             \* public/index.html
    evals,            \* history: the compare requests made
    forkReqs,         \* history: the fork-list requests made
    swallowed,        \* history: non-2xx statuses turned into a value
    failed            \* history: the endpoint whose request raised

vars == <<api, pc, murl, stack, fork_activity, unique_activity, file,
          evals, forkReqs, swallowed, failed>>

hist == <<evals, forkReqs, swallowed>>

Absent == [exists |-> FALSE, rows |-> <<>>]

Frame(parent, repo, depth, path, idx) ==
    [parent |-> parent, repo |-> repo, depth |-> depth, path |-> path,
     idx |-> idx, pc |-> "enter", url |-> None, reqs |-> <<>>,
     forks |-> <<>>, i |-> 0, curl |-> None,
     ahead |-> 0, behind |-> 0, release |-> "-", acc |-> <<>>]

Top == stack[Len(stack)]

SetTop(f) == [stack EXCEPT ![Len(stack)] = f]

Init ==
    /\ api \in [forksOf : ForkRelations, pageSize : 1..MaxPageSize,
                releaseStatus : ReleaseStatuses]
    /\ pc = "description"
    /\ murl = None
    /\ stack = <<>>
    /\ fork_activity = <<>>
    /\ unique_activity = <<>>
    /\ file = Absent
    /\ evals = {}
    /\ forkReqs = {}
    /\ swallowed = {}
    /\ failed = "none"

\* What the API answered: a non-2xx status is noted on the endpoint it came from.
Is2xx(status) == status >= 200 /\ status <= 299

Noted(status, endpoint) == IF Is2xx(status) THEN failed ELSE endpoint

\* An uncaught HTTPError: the exception unwinds every frame and ends main.
Abort(endpoint) ==
    /\ pc' = "aborted"
    /\ failed' = endpoint
    /\ stack' = <<>>
    /\ UNCHANGED <<api, murl, fork_activity, unique_activity, file, hist>>

\* ------------------------------------------------------------------- main
\* main: get_repo_description(owner, repo, token)
MainDescription ==
    /\ pc = "description"
    /\ \E status \in RequestStatuses :
        IF Raises(status) THEN Abort("repo")
        ELSE /\ pc' = "commits"
             /\ murl' = 1
             /\ failed' = Noted(status, "repo")
             /\ UNCHANGED <<api, stack, fork_activity, unique_activity, file,
                            hist>>

\* main: get_commits_info(owner, repo, token), one page per step
MainCommitsPage ==
    /\ pc = "commits"
    /\ murl # None
    /\ \E status \in RequestStatuses, more \in BOOLEAN :
        IF Raises(status) THEN Abort("commits")
        ELSE LET next == NextCommitsUrl(murl, more /\ murl < MaxCommitPages)
             IN  /\ murl' = next
                 /\ pc' = IF next = None THEN "repo_info" ELSE "commits"
                 /\ failed' = Noted(status, "commits")
                 /\ UNCHANGED <<api, stack, fork_activity, unique_activity,
                                file, hist>>

\* main: get_repo_info(owner, repo, token), the repository request
MainRepoInfo ==
    /\ pc = "repo_info"
    /\ \E status \in RequestStatuses :
        IF Raises(status) THEN Abort("repo")
        ELSE /\ pc' = "release"
             /\ failed' = Noted(status, "repo")
             /\ UNCHANGED <<api, murl, stack, fork_activity, unique_activity,
                            file, hist>>

\* main: get_repo_info, the latest-release request; then the call
\* gather_activity(owner, repo, owner, repo, token, max_depth=2)
MainRelease ==
    /\ pc = "release"
    /\ swallowed' = IF api.releaseStatus = 200 THEN swallowed
                    ELSE swallowed \cup {api.releaseStatus}
    /\ pc' = "walk"
    /\ stack' = <<Frame(Root, Root, 0, <<>>, <<>>)>>
    /\ UNCHANGED <<api, murl, fork_activity, unique_activity, file, evals,
                   forkReqs, failed>>

\* generate_html: get_repo_stars of the root, then the file is written
GenerateHtml ==
    /\ pc = "generate"
    /\ \E status \in RequestStatuses :
        IF Raises(status) THEN Abort("repo")
        ELSE /\ file' = [exists |-> TRUE, rows |-> Render(unique_activity)]
             /\ pc' = "done"
             /\ failed' = Noted(status, "repo")
             /\ UNCHANGED <<api, murl, stack, fork_activity, unique_activity,
                            hist>>

\* -------------------------------------------------------- gather_activity
Walking == pc = "walk" /\ stack # <<>>

WalkUnchanged == UNCHANGED <<api, pc, murl, fork_activity, unique_activity,
                             file>>

\* the loop "for fork in forks" reaching position i
LoopAt(f, i) ==
    IF i > Len(f.forks) THEN [f EXCEPT !.i = i, !.pc = "return"]
    ELSE [f EXCEPT !.i = i, !.pc = "commits", !.curl = 1]

\* if depth > max_depth: return []
GatherEnter ==
    /\ Walking
    /\ Top.pc = "enter"
    /\ stack' = SetTop(IF DepthExceeded(Top.depth, MaxDepth)
                       THEN [Top EXCEPT !.pc = "return"]
                       ELSE [Top EXCEPT !.pc = "get_forks", !.url = 1])
    /\ WalkUnchanged
    /\ UNCHANGED failed
    /\ UNCHANGED hist

\* get_forks(owner, repo, token): one page per step
GetForksPage ==
    /\ Walking
    /\ Top.pc = "get_forks"
    /\ Top.url # None
    /\ \E status \in RequestStatuses :
        IF Raises(status)
        THEN /\ Abort("forks")
        ELSE LET f == Top
                 got == [f EXCEPT
                           !.forks = ExtendForks(f.forks, Page(api, f.repo, f.url)),
                           !.reqs = Append(f.reqs, f.url),
                           !.url = NextForksUrl(f.url, HasNext(api, f.repo, f.url))]
             IN  /\ stack' = SetTop(IF got.url = None THEN LoopAt(got, 1) ELSE got)
                 /\ forkReqs' = forkReqs \cup
                        {[repo |-> f.repo, depth |-> f.depth, idx |-> f.idx,
                          page |-> f.url]}
                 /\ WalkUnchanged
                 /\ failed' = Noted(status, "forks")
                 /\ UNCHANGED <<evals, swallowed>>

\* get_commits_info(fork_owner, fork_repo, token): one page per step
CommitsPage ==
    /\ Walking
    /\ Top.pc = "commits"
    /\ \E status \in RequestStatuses, more \in BOOLEAN :
        IF Raises(status) THEN Abort("commits")
        ELSE LET next == NextCommitsUrl(Top.curl, more /\ Top.curl < MaxCommitPages)
             IN  /\ stack' = SetTop([Top EXCEPT
                        !.curl = next,
                        !.pc = IF next = None THEN "branch_parent" ELSE "commits"])
                 /\ WalkUnchanged
                 /\ failed' = Noted(status, "commits")
                 /\ UNCHANGED hist

\* get_commits_ahead_behind: get_default_branch(parent_owner, parent_repo)
BranchParent ==
    /\ Walking
    /\ Top.pc = "branch_parent"
    /\ \E status \in RequestStatuses :
        IF Raises(status) THEN Abort("repo")
        ELSE /\ stack' = SetTop([Top EXCEPT !.pc = "branch_fork"])
             /\ WalkUnchanged
             /\ failed' = Noted(status, "repo")
             /\ UNCHANGED hist

\* get_commits_ahead_behind: get_default_branch(fork_owner, fork_repo)
BranchFork ==
    /\ Walking
    /\ Top.pc = "branch_fork"
    /\ \E status \in RequestStatuses :
        IF Raises(status) THEN Abort("repo")
        ELSE /\ stack' = SetTop([Top EXCEPT !.pc = "compare"])
             /\ WalkUnchanged
             /\ failed' = Noted(status, "repo")
             /\ UNCHANGED hist

\* get_commits_ahead_behind: the compare request, then the inclusion filter
Compare ==
    /\ Walking
    /\ Top.pc = "compare"
    /\ \E status \in RequestStatuses, c \in CompareResults :
        IF Raises(status) THEN Abort("compare")
        ELSE LET f == Top
             IN  /\ evals' = evals \cup
                        {[idx |-> Append(f.idx, f.i), upstream |-> f.parent,
                          fork |-> f.forks[f.i], depth |-> f.depth,
                          ahead |-> c[1]]}
                 /\ stack' = SetTop(
                        IF Excluded(c[1], c[2]) THEN LoopAt(f, AfterSkip(f.i))
                        ELSE [f EXCEPT !.ahead = c[1], !.behind = c[2],
                                       !.pc = "repo_info"])
                 /\ WalkUnchanged
                 /\ failed' = Noted(status, "compare")
                 /\ UNCHANGED <<forkReqs, swallowed>>

\* get_repo_info(fork_owner, fork_repo, token): the repository request
RepoInfo ==
    /\ Walking
    /\ Top.pc = "repo_info"
    /\ \E status \in RequestStatuses :
        IF Raises(status) THEN Abort("repo")
        ELSE /\ stack' = SetTop([Top EXCEPT !.pc = "release"])
             /\ WalkUnchanged
             /\ failed' = Noted(status, "repo")
             /\ UNCHANGED hist

\* get_repo_info: the latest-release request
Release ==
    /\ Walking
    /\ Top.pc = "release"
    /\ stack' = SetTop([Top EXCEPT !.release = ReleaseNumber(api.releaseStatus),
                                   !.pc = "description"])
    /\ swallowed' = IF api.releaseStatus = 200 THEN swallowed
                    ELSE swallowed \cup {api.releaseStatus}
    /\ WalkUnchanged
    /\ UNCHANGED failed
    /\ UNCHANGED <<evals, forkReqs>>

\* get_repo_description(fork_owner, fork_repo, token)
Description ==
    /\ Walking
    /\ Top.pc = "description"
    /\ \E status \in RequestStatuses :
        IF Raises(status) THEN Abort("repo")
        ELSE /\ stack' = SetTop([Top EXCEPT !.pc = "stars"])
             /\ WalkUnchanged
             /\ failed' = Noted(status, "repo")
             /\ UNCHANGED hist

\* get_repo_stars(fork_owner, fork_repo, token); then the record is appended
\* and gather_activity is called for the fork
Stars ==
    /\ Walking
    /\ Top.pc = "stars"
    /\ \E status \in RequestStatuses :
        IF Raises(status) THEN Abort("repo")
        ELSE LET f == Top
                 name == f.forks[f.i]
                 path == Append(f.path, name)
                 idx == Append(f.idx, f.i)
                 rec == [fork |-> name, commits_ahead |-> f.ahead,
                         commits_behind |-> f.behind,
                         last_release_number |-> f.release,
                         path |-> path, idx |-> idx]
             IN  /\ stack' = Append(
                        SetTop([f EXCEPT !.acc = Append(f.acc, rec), !.pc = "call"]),
                        Frame(ChildUpstream(f.parent, name), name,
                              ChildDepth(f.depth), path, idx))
                 /\ WalkUnchanged
                 /\ failed' = Noted(status, "repo")
                 /\ UNCHANGED hist

\* return fork_activity, into the caller's extend or into main
Return ==
    /\ Walking
    /\ Top.pc = "return"
    /\ IF Len(stack) = 1
       THEN /\ fork_activity' = Top.acc
            /\ unique_activity' = UniqueActivity(Top.acc)
            /\ stack' = <<>>
            /\ pc' = "generate"
            /\ UNCHANGED <<api, murl, file, hist, failed>>
       ELSE LET caller == stack[Len(stack) - 1]
                back == [caller EXCEPT !.acc = ExtendActivity(caller.acc, Top.acc)]
            IN  /\ stack' = Append(SubSeq(stack, 1, Len(stack) - 2),
                                   LoopAt(back, caller.i + 1))
                /\ WalkUnchanged
                /\ UNCHANGED failed
                /\ UNCHANGED hist

Next ==
    \/ MainDescription
    \/ MainCommitsPage
    \/ MainRepoInfo
    \/ MainRelease
    \/ GenerateHtml
    \/ GatherEnter
    \/ GetForksPage
    \/ CommitsPage
    \/ BranchParent
    \/ BranchFork
    \/ Compare
    \/ RepoInfo
    \/ Release
    \/ Description
    \/ Stars
    \/ Return

Spec == Init /\ [][Next]_vars

FairSpec == Spec /\ WF_vars(Next)

\* ---------------------------------------------------------------- helpers
Terminated == pc \in {"done", "aborted"}

Range(seq) == {seq[k] : k \in 1..Len(seq)}

Front(seq) == SubSeq(seq, 1, Len(seq) - 1)

Last(seq) == seq[Len(seq)]

\* the repository at position idx of the fork tree the API serves
RECURSIVE RepoAt(_)
RepoAt(idx) ==
    IF idx = <<>> THEN Root ELSE api.forksOf[RepoAt(Front(idx))][Last(idx)]

Frames == Range(stack)

\* The records in existence.  A call's list changes only while the call is
\* the running one, so the running call's list and main's lists cover them.
AllRecords ==
    IF stack # <<>> THEN Range(Top.acc)
    ELSE Range(fork_activity) \cup Range(unique_activity)

\* the fork at position idx was compared and found ahead
Included(idx) == \E e \in evals : e.idx = idx /\ e.ahead > 0

\* p comes before q in pre-order: p is a proper prefix of q, or p is smaller
\* at the first position where they differ
LexLess(p, q) ==
    \E k \in 1..Len(q) :
        /\ k - 1 <= Len(p)
        /\ SubSeq(p, 1, k - 1) = SubSeq(q, 1, k - 1)
        /\ (k > Len(p) \/ p[k] < q[k])

InPreOrder(rs) ==
    \A i, j \in 1..Len(rs) : i < j => LexLess(rs[i].idx, rs[j].idx)

\* a record as the program holds it (idx is the model's position marker)
Content(r) ==
    [fork |-> r.fork, commits_ahead |-> r.commits_ahead,
     commits_behind |-> r.commits_behind,
     last_release_number |-> r.last_release_number, path |-> r.path]

FirstIndex(name) ==
    CHOOSE i \in 1..Len(fork_activity) :
        /\ fork_activity[i].fork = name
        /\ \A j \in 1..(i - 1) : fork_activity[j].fork # name

LastIndex(name) ==
    CHOOSE i \in 1..Len(fork_activity) :
        /\ fork_activity[i].fork = name
        /\ \A j \in (i + 1)..Len(fork_activity) : fork_activity[j].fork # name

OneEntryPerName ==
    /\ \A k \in 1..Len(unique_activity) :
          \E r \in Range(fork_activity) : r.fork = unique_activity[k].fork
    /\ \A r \in Range(fork_activity) :
          Cardinality({k \in 1..Len(unique_activity) :
                          unique_activity[k].fork = r.fork}) = 1
    /\ file.exists => file.rows = Render(unique_activity)

\* ----------------------------------------------------------------- claims

\* C1: no record, and no row of the report, belongs to a fork whose computed
\* commits_ahead is 0, whatever its commits_behind, nor to a descendant of
\* such a fork; a fork list is requested, and a fork compared, only below
\* forks that were themselves found ahead.
C1_ZeroAheadForksPruned ==
    /\ \A r \in AllRecords :
          /\ r.commits_ahead > 0
          /\ \A k \in 1..Len(r.idx) : Included(SubSeq(r.idx, 1, k))
    /\ \A k \in 1..Len(file.rows) : file.rows[k].commits_ahead > 0
    /\ \A q \in forkReqs : q.idx # <<>> => Included(q.idx)
    /\ \A e \in evals :
          /\ \A k \in 1..(Len(e.idx) - 1) : Included(SubSeq(e.idx, 1, k))
          /\ \A d \in evals : d.idx = e.idx => d = e
    /\ \A f \in Frames : f.idx # <<>> => Included(f.idx)

\* C1 witness: a finished run whose report has rows although a fork that
\* has forks of its own was found zero commits ahead.
C1_Witness ==
    /\ pc = "done"
    /\ file.rows # <<>>
    /\ \E e \in evals : e.ahead = 0 /\ api.forksOf[e.fork] # <<>>

\* C2 (as claimed): every compare request, at every depth, has the root
\* repository as its upstream side.
C2_UpstreamIsRoot == \A e \in evals : e.upstream = Root

\* C2 (amended): a compare request has as its upstream side the repository
\* whose fork list is being enumerated: the root at depth 0, the fork's
\* immediate parent at every depth >= 1.
C2_UpstreamIsEnumeratedRepo ==
    \A e \in evals :
        /\ e.depth = Len(e.idx) - 1
        /\ e.fork = RepoAt(e.idx)
        /\ e.upstream = RepoAt(Front(e.idx))
        /\ e.depth = 0 => e.upstream = Root

\* C2 witness: a fork of a fork was compared, against a fork.
C2_Witness == \E e \in evals : e.depth >= 1 /\ e.upstream \in Forks

\* C3 (as claimed): the deduplicated list has one entry per distinct full
\* name, and that entry is the first record of the walk with that name.
C3_DedupKeepsFirst ==
    /\ OneEntryPerName
    /\ \A k \in 1..Len(unique_activity) :
          Content(unique_activity[k]) =
              Content(fork_activity[FirstIndex(unique_activity[k].fork)])

\* C3 (amended): the deduplicated list has one entry per distinct full name,
\* in the order of the names' first occurrences, and that entry is the last
\* record of the walk with that name.
C3_DedupKeepsLast ==
    /\ OneEntryPerName
    /\ \A k \in 1..Len(unique_activity) :
          Content(unique_activity[k]) =
              Content(fork_activity[LastIndex(unique_activity[k].fork)])
    /\ \A k, l \in 1..Len(unique_activity) :
          k < l => FirstIndex(unique_activity[k].fork)
                       < FirstIndex(unique_activity[l].fork)

\* C3 witness: the walk produced two records with one name and different
\* contents, and the report was written.
C3_Witness ==
    /\ pc = "done"
    /\ \E i, j \in 1..Len(fork_activity) :
          /\ i < j
          /\ fork_activity[i].fork = fork_activity[j].fork
          /\ Content(fork_activity[i]) # Content(fork_activity[j])

\* C4: the file exists only in a run that ended with no repository,
\* fork-list, commit-list or compare request answered non-2xx; once such a
\* request has failed the run is aborted and the file is absent.
C4_NoFileAfterFailedRequest ==
    /\ file.exists => (failed = "none" /\ pc = "done" /\ stack = <<>>)
    /\ failed # "none" => (pc = "aborted" /\ ~file.exists)
    /\ pc = "aborted" => failed # "none"

\* C4 witness: the walk had returned records and the star-count request of
\* generate_html failed: no file.
C4_Witness ==
    /\ pc = "aborted"
    /\ failed = "repo"
    /\ unique_activity # <<>>
    /\ ~file.exists

\* C5 (as claimed): the only non-2xx status ever turned into a value is a
\* 404 of the latest-release endpoint.
C5_OnlyRelease404Tolerated == \A s \in swallowed : s = 404

\* C6: the record list of the running call and the list returned to main
\* are in depth-first pre-order of the positions in the API's listings,
\* every record names the fork listed at its position, and the returned
\* list holds exactly the included forks.
C6_DepthFirstPreOrder ==
    /\ InPreOrder(fork_activity)
    /\ stack # <<>> => InPreOrder(Top.acc)
    /\ \A r \in AllRecords :
          /\ r.fork = RepoAt(r.idx)
          /\ r.path = [k \in 1..Len(r.idx) |-> RepoAt(SubSeq(r.idx, 1, k))]
    /\ pc \in {"generate", "done"} =>
          {r.idx : r \in Range(fork_activity)}
              = {e.idx : e \in {d \in evals : d.ahead > 0}}

\* C6 witness: a returned list with a fork, then its child, then its sibling.
C6_Witness ==
    /\ pc = "done"
    /\ Len(fork_activity) = 3
    /\ fork_activity[1].idx = <<1>>
    /\ fork_activity[2].idx = <<1, 1>>
    /\ fork_activity[3].idx = <<2>>

\* C7: get_forks requests the pages 1..N in order, once each, and returns
\* the concatenation of their items; while it runs it holds the items of the
\* pages requested so far; a failed page ends the run with no list returned.
C7_GetForksFollowsAllPages ==
    /\ \A f \in Frames :
          LET full == api.forksOf[f.repo]
          IN  CASE f.pc = "enter" -> f.reqs = <<>> /\ f.forks = <<>>
                [] f.pc = "get_forks" ->
                      /\ f.url \in 1..NumPages(api, f.repo)
                      /\ f.reqs = [j \in 1..(f.url - 1) |-> j]
                      /\ f.forks = SubSeq(full, 1,
                             Min((f.url - 1) * api.pageSize, Len(full)))
                [] OTHER ->
                      IF f.depth > MaxDepth THEN f.reqs = <<>> /\ f.forks = <<>>
                      ELSE /\ f.reqs = [j \in 1..NumPages(api, f.repo) |-> j]
                           /\ f.forks = full
    /\ \A q \in forkReqs : q.page \in 1..NumPages(api, q.repo)
    /\ failed = "forks" => stack = <<>> /\ pc = "aborted"

\* C7 witness: a get_forks call that returned after more than one page.
C7_Witness ==
    \E f \in Frames : f.pc = "commits" /\ Len(f.reqs) >= 2 /\ Len(f.forks) >= 2

\* C8: a call with depth > max_depth makes no request and returns nothing;
\* fork lists are requested and forks compared at depths 0..max_depth only,
\* and no record's path names more than max_depth + 1 forks.
C8_DepthBounded ==
    /\ \A k \in 1..Len(stack) :
          /\ stack[k].depth = k - 1
          /\ stack[k].depth <= MaxDepth + 1
          /\ stack[k].depth > MaxDepth =>
                /\ stack[k].pc \in {"enter", "return"}
                /\ stack[k].reqs = <<>>
                /\ stack[k].forks = <<>>
                /\ stack[k].acc = <<>>
    /\ \A q \in forkReqs : q.depth \in 0..MaxDepth
    /\ \A e \in evals : e.depth \in 0..MaxDepth
    /\ \A r \in AllRecords : Len(r.path) <= MaxDepth + 1

\* C8 witness: a call at depth max_depth + 1 is about to return.
C8_Witness ==
    \E f \in Frames : f.depth = MaxDepth + 1 /\ f.pc = "return"

\* C9: in a run that ended with no failed request every fork of every
\* fetched fork list was compared, and the report has a row for a fork
\* exactly if a comparison of that fork found it ahead; every row shows
\* commits_ahead > 0.
C9_ReportIffAhead ==
    pc = "done" =>
        /\ \A q \in forkReqs :
              \A j \in 1..Len(Page(api, q.repo, q.page)) :
                  \E e \in evals :
                      /\ e.idx = Append(q.idx, (q.page - 1) * api.pageSize + j)
                      /\ e.fork = Page(api, q.repo, q.page)[j]
        /\ \A name \in Forks :
              (\E e \in evals : e.fork = name /\ e.ahead > 0)
                  <=> (\E k \in 1..Len(file.rows) : file.rows[k].repo_name = name)
        /\ \A k \in 1..Len(file.rows) : file.rows[k].commits_ahead > 0

\* C9 witness: a finished run in which deduplication removed a record and
\* some fork was found zero commits ahead.
C9_Witness ==
    /\ pc = "done"
    /\ Len(file.rows) < Len(fork_activity)
    /\ \E e \in evals : e.ahead = 0

\* The position of the run, as a sequence compared in the order LexLess:
\* main's position first, then one number per call, outermost first, made
\* of the call's loop index and its position inside the iteration.
StageWidth == MaxEdges + MaxCommitPages + 11

Stage(f) ==
    CASE f.pc = "enter" -> 0
      [] f.pc = "get_forks" -> f.url
      [] f.pc = "commits" -> MaxEdges + f.curl
      [] f.pc = "branch_parent" -> MaxEdges + MaxCommitPages + 1
      [] f.pc = "branch_fork" -> MaxEdges + MaxCommitPages + 2
      [] f.pc = "compare" -> MaxEdges + MaxCommitPages + 3
      [] f.pc = "repo_info" -> MaxEdges + MaxCommitPages + 4
      [] f.pc = "release" -> MaxEdges + MaxCommitPages + 5
      [] f.pc = "description" -> MaxEdges + MaxCommitPages + 6
      [] f.pc = "stars" -> MaxEdges + MaxCommitPages + 7
      [] f.pc = "call" -> MaxEdges + MaxCommitPages + 8
      [] f.pc = "return" -> MaxEdges + MaxCommitPages + 9

MainStage ==
    CASE pc = "description" -> 0
      [] pc = "commits" -> murl
      [] pc = "repo_info" -> MaxCommitPages + 1
      [] pc = "release" -> MaxCommitPages + 2
      [] pc = "walk" -> MaxCommitPages + 3
      [] pc = "generate" -> MaxCommitPages + 4
      [] pc = "done" -> MaxCommitPages + 5
      [] pc = "aborted" -> MaxCommitPages + 5

Position ==
    <<MainStage>> \o [k \in 1..Len(stack) |->
                        stack[k].i * StageWidth + Stage(stack[k])]

PositionBounded ==
    /\ Len(stack) <= MaxDepth + 2
    /\ \A k \in 1..Len(stack) :
          /\ stack[k].depth = k - 1
          /\ stack[k].i <= Len(stack[k].forks) + 1
          /\ Len(stack[k].forks) <= MaxEdges
          /\ Stage(stack[k]) < StageWidth
    /\ MainStage <= MaxCommitPages + 5

\* a run that has not ended is at a position where one of the steps applies
CanStep ==
    /\ pc = "commits" => murl # None
    /\ pc = "walk" =>
          /\ stack # <<>>
          /\ Top.pc # "call"
          /\ Top.pc = "get_forks" => Top.url # None
          /\ Top.pc \in {"commits", "branch_parent", "branch_fork", "compare",
                         "repo_info", "release", "description", "stars"} =>
                Top.i \in 1..Len(Top.forks)
    /\ pc # "walk" => stack = <<>>

\* C10: every step of a run moves it to a strictly later position of a
\* bounded order (the call depth grows by one per recursive call and never
\* passes max_depth + 1; inside a call the loop index and the page numbers
\* only grow), and a run that has not ended can always take a step: so
\* every run ends, also on a cyclic fork relation.
C10_WalkTerminates ==
    /\ [](PositionBounded /\ CanStep)
    /\ [][LexLess(Position, Position')]_vars

\* The same, as a liveness property of the fair specification.
EventuallyTerminated == <>Terminated

\* C10 witness: a finished run over a repository listed among its own forks,
\* walked down to the depth bound.
C10_Witness ==
    /\ pc = "done"
    /\ \E r \in Range(fork_activity) :
          /\ Len(r.path) = MaxDepth + 1
          /\ \A k \in 1..Len(r.path) : r.path[k] = r.fork

====
